---- MODULE Spec2Model ----
(***************************************************************************)
(* Poseidon-based random oracle of prover/src/provider/poseidon.rs:        *)
(* the native transcript PoseidonRO<Base, Scalar> and the circuit gadget   *)
(* PoseidonROCircuit<Base>, driven as in test_poseidon_ro_with.            *)
(*                                                                         *)
(* Field elements are integers modulo a small prime, an Option<T> is a     *)
(* sequence of length <= 1 (None == <<>>, Some(x) == <<x>>), an            *)
(* AllocatedNum is the witness value it is bound to, an AllocatedBit is    *)
(* the 0/1 value assigned to it.  A panic is an outcome "panic" of the     *)
(* call: the assignments made before the panic stay in the object, which   *)
(* a caller that catches the unwind still holds.                           *)
(***************************************************************************)
EXTENDS Integers, Sequences, FiniteSets, TLC

VARIABLES
    fields,         \* the type parameters: moduli of Base and of Scalar
    ro,             \* PoseidonRO<Base, Scalar>   {state, constants, num_absorbs, squeezed}
    ro_gadget,      \* PoseidonROCircuit<Base>    {state, constants, num_absorbs, squeezed}
    ro_call,        \* the last call on ro and how it ended
    gadget_call,    \* the last call on ro_gadget and how it ended
    ro_out,         \* what the squeeze calls on ro that returned have returned
    gadget_out,     \* what the squeeze calls on ro_gadget that returned Ok have returned
    ro_absorbed,    \* the values passed to the absorb calls on ro that returned, in call order
    gadget_absorbed,\* the same for ro_gadget
    err,            \* the SuperNovaError a caller of the folding layer received last
    err_prev,       \* the SuperNovaError it received before that
    thrown,         \* what err was built from
    thrown_prev     \* what err_prev was built from

oracle_vars == <<fields, ro, ro_gadget, ro_call, gadget_call, ro_out, gadget_out,
                 ro_absorbed, gadget_absorbed>>
error_vars == <<err, err_prev, thrown, thrown_prev>>
vars == <<oracle_vars, error_vars>>

-----------------------------------------------------------------------------
(* Bounds of the model *)

\* absorbed values are the field elements 0..MaxElem
MaxElem == 1
\* num_absorbs is drawn from 1..MaxAbsorbs
MaxAbsorbs == 2
\* the PoseidonConstants values are 0..MaxConstants
MaxConstants == 1
\* a squeeze is tried while fewer than MaxReturns squeezes have returned
MaxReturns == 2
\* the NovaError values are 0..MaxNovaError
MaxNovaError == 1
\* UnSatIndex carries an index in 0..MaxIndex
MaxIndex == 3

-----------------------------------------------------------------------------
(* The two prime fields *)

\* Base and Scalar of a curve cycle: two primes of the same bit length, in
\* either order.
FieldPairs == {[base |-> 7, scalar |-> 5], [base |-> 5, scalar |-> 7]}

\* Width of one limb of the field representation.
LimbBits == 4

RECURSIVE BitLength(_)
BitLength(n) == IF n = 0 THEN 0 ELSE 1 + BitLength(n \div 2)

\* PrimeField::NUM_BITS: the bit length of the modulus.
NUM_BITS(p) == BitLength(p)

\* Number of bits of PrimeFieldBits::ReprBits: whole limbs.
ReprBitsLen(p) == LimbBits * ((NUM_BITS(p) + LimbBits - 1) \div LimbBits)

RECURSIVE LeBits(_, _)
LeBits(x, n) == IF n = 0 THEN <<>> ELSE <<x % 2>> \o LeBits(x \div 2, n - 1)

\* to_le_bits yielding the bits high to low
to_le_bits_msb_first(x, p) ==
    [i \in 1..ReprBitsLen(p) |-> LeBits(x, ReprBitsLen(p))[ReprBitsLen(p) + 1 - i]]

\* hash[0].to_le_bits(): every bit of the representation, low to high.
to_le_bits(x, p) == LeBits(x, ReprBitsLen(p))

\* to_bits_le_strict yielding the bits high to low
to_bits_le_strict_msb_first(x, p) ==
    [i \in 1..NUM_BITS(p) |-> LeBits(x, NUM_BITS(p))[NUM_BITS(p) + 1 - i]]

\* hash.to_bits_le_strict(cs): NUM_BITS booleans, low to high, of the
\* canonical (< p) value.
to_bits_le_strict(x, p) == LeBits(x, NUM_BITS(p))

-----------------------------------------------------------------------------
(* The sponge (neptune), a deterministic function of constants, IO pattern  *)
(* and ordered input                                                        *)

\* a pattern declaring one absorbed element more than num_absorbs
IOPattern_padded(num_absorbs) ==
    <<[op |-> "Absorb", n |-> num_absorbs + 1], [op |-> "Squeeze", n |-> 1]>>

IOPattern(num_absorbs) == <<[op |-> "Absorb", n |-> num_absorbs], [op |-> "Squeeze", n |-> 1]>>

RECURSIVE SpongeAbsorb(_, _, _, _)
SpongeAbsorb(h, input, c, p) ==
    IF input = <<>> THEN h
    ELSE SpongeAbsorb((3 * h + Head(input) + c + 1) % p, Tail(input), c, p)

\* sponge.start(parameter); SpongeAPI::absorb(n, input); SpongeAPI::squeeze(1);
\* sponge.finish(): one element of the field with modulus p.
SpongeHash(c, pattern, input, p) ==
    SpongeAbsorb((2 * c + pattern[1].n) % p, input, c, p)

-----------------------------------------------------------------------------
(* PoseidonRO<Base, Scalar>: the oracle outside circuits *)

None == <<>>
Some(x) == <<x>>

\* a panic's or an error's payload: its text and the two numbers it prints
Msg(text, left, right) == [text |-> text, left |-> left, right |-> right]
NoMsg == Msg("", 0, 0)

\* the outcome of a call: the object afterwards, how the call ended
\* ("ok", "panic", "err"), the payload of the panic or error, the value
\* returned and the use made of the sponge
Outcome(self, outcome, msg, ret, sponge) ==
    [self |-> self, outcome |-> outcome, msg |-> msg, ret |-> ret, sponge |-> sponge]

PoseidonRO_new(constants, num_absorbs) ==
    [state |-> <<>>, constants |-> constants, num_absorbs |-> num_absorbs,
     squeezed |-> FALSE]

\* absorb without the assertion on squeezed
PoseidonRO_absorb_unguarded(self, e) ==
    Outcome([self EXCEPT !.state = Append(@, e)], "ok", NoMsg, None, None)

\* absorb that raises num_absorbs when the buffer outgrows it
PoseidonRO_absorb_growing(self, e) ==
    IF self.squeezed
    THEN Outcome(self, "panic", Msg("Cannot absorb after squeezing", 0, 0), None, None)
    ELSE Outcome([self EXCEPT !.state = Append(@, e),
                              !.num_absorbs = IF Len(self.state) + 1 > @
                                              THEN Len(self.state) + 1 ELSE @],
                 "ok", NoMsg, None, None)

PoseidonRO_absorb(self, e) ==
    IF self.squeezed
    THEN Outcome(self, "panic", Msg("Cannot absorb after squeezing", 0, 0), None, None)
    ELSE Outcome([self EXCEPT !.state = Append(@, e)], "ok", NoMsg, None, None)

\* the accumulation with a weight that grows by one instead of doubling
RECURSIVE Accumulate_increment(_, _, _, _)
Accumulate_increment(bits, res, coeff, q) ==
    IF bits = <<>> THEN res
    ELSE Accumulate_increment(Tail(bits),
                              IF Head(bits) = 1 THEN (res + coeff) % q ELSE res,
                              (coeff + 1) % q, q)

\* for bit in bits[..num_bits] { if *bit { res += coeff; } coeff += coeff; }
\* in the field with modulus q
RECURSIVE Accumulate(_, _, _, _)
Accumulate(bits, res, coeff, q) ==
    IF bits = <<>> THEN res
    ELSE Accumulate(Tail(bits),
                    IF Head(bits) = 1 THEN (res + coeff) % q ELSE res,
                    (coeff + coeff) % q, q)

\* squeeze that never sets the latch
PoseidonRO_squeeze_unlatched(self, num_bits, p, q) ==
    IF self.squeezed
    THEN Outcome(self, "panic", Msg("Cannot squeeze again after squeezing", 0, 0), None, None)
    ELSE
      LET parameter == IOPattern(self.num_absorbs)
      IN  IF self.num_absorbs # Len(self.state)
          THEN Outcome(self, "panic", Msg("assert_eq", self.num_absorbs, Len(self.state)),
                       None, None)
          ELSE
            LET hash == SpongeHash(self.constants, parameter, self.state, p)
                used == Some([pattern |-> parameter, input |-> self.state, hash |-> hash])
                bits == to_le_bits(hash, p)
            IN  IF num_bits > Len(bits)
                THEN Outcome(self, "panic", Msg("slice", num_bits, Len(bits)), None, used)
                ELSE Outcome(self, "ok", NoMsg,
                             Some(Accumulate(SubSeq(bits, 1, num_bits), 0, 1 % q, q)),
                             used)

PoseidonRO_squeeze(self, num_bits, p, q) ==
    IF self.squeezed
    THEN Outcome(self, "panic", Msg("Cannot squeeze again after squeezing", 0, 0), None, None)
    ELSE
      LET marked == [self EXCEPT !.squeezed = TRUE]
          parameter == IOPattern(self.num_absorbs)
      IN  IF self.num_absorbs # Len(self.state)
          THEN Outcome(marked, "panic", Msg("assert_eq", self.num_absorbs, Len(self.state)),
                       None, None)
          ELSE
            LET hash == SpongeHash(self.constants, parameter, self.state, p)
                used == Some([pattern |-> parameter, input |-> self.state, hash |-> hash])
                bits == to_le_bits(hash, p)
            IN  IF num_bits > Len(bits)
                THEN Outcome(marked, "panic", Msg("slice", num_bits, Len(bits)), None, used)
                ELSE Outcome(marked, "ok", NoMsg,
                             Some(Accumulate(SubSeq(bits, 1, num_bits), 0, 1 % q, q)),
                             used)

-----------------------------------------------------------------------------
(* PoseidonROCircuit<Base>: the gadget inside the verifier circuit *)

\* what the constraint system does during one squeeze: nothing fails, or the
\* named call returns Err(SynthesisError)
Synthesis == {"fine", "ensure_allocated", "to_bits_le_strict"}

PoseidonROCircuit_new(constants, num_absorbs) ==
    [state |-> <<>>, constants |-> constants, num_absorbs |-> num_absorbs,
     squeezed |-> FALSE]

\* absorb that puts the new element in front of the buffer
PoseidonROCircuit_absorb_front(self, e) ==
    IF self.squeezed
    THEN Outcome(self, "panic", Msg("Cannot absorb after squeezing", 0, 0), None, None)
    ELSE Outcome([self EXCEPT !.state = <<e>> \o @], "ok", NoMsg, None, None)

PoseidonROCircuit_absorb(self, e) ==
    IF self.squeezed
    THEN Outcome(self, "panic", Msg("Cannot absorb after squeezing", 0, 0), None, None)
    ELSE Outcome([self EXCEPT !.state = Append(@, e)], "ok", NoMsg, None, None)

\* squeeze that compares the count with num_absorbs only after the synthesis
\* calls
PoseidonROCircuit_squeeze_late_check(self, cs, num_bits, p) ==
    IF self.squeezed
    THEN Outcome(self, "panic", Msg("Cannot squeeze again after squeezing", 0, 0), None, None)
    ELSE
      LET marked == [self EXCEPT !.squeezed = TRUE]
          parameter == IOPattern(self.num_absorbs)
          input == [i \in 1..Len(self.state) |-> self.state[i]]
          hash == SpongeHash(self.constants, parameter, input, p)
          used == Some([pattern |-> parameter, input |-> input, hash |-> hash])
          bits == to_bits_le_strict(hash, p)
      IN  IF cs = "ensure_allocated" \/ cs = "to_bits_le_strict"
          THEN Outcome(marked, "err", Msg(cs, 0, 0), None, used)
          ELSE IF self.num_absorbs # Len(self.state)
          THEN Outcome(marked, "panic", Msg("assert_eq", self.num_absorbs, Len(self.state)),
                       None, None)
          ELSE IF num_bits > Len(bits)
          THEN Outcome(marked, "panic", Msg("slice", num_bits, Len(bits)), None, used)
          ELSE Outcome(marked, "ok", NoMsg, Some(SubSeq(bits, 1, num_bits)), used)

\* squeeze asserting only that no fewer than num_absorbs elements were absorbed
PoseidonROCircuit_squeeze_at_least(self, cs, num_bits, p) ==
    IF self.squeezed
    THEN Outcome(self, "panic", Msg("Cannot squeeze again after squeezing", 0, 0), None, None)
    ELSE
      LET marked == [self EXCEPT !.squeezed = TRUE]
          parameter == IOPattern(self.num_absorbs)
      IN  IF self.num_absorbs > Len(self.state)
          THEN Outcome(marked, "panic", Msg("assert_eq", self.num_absorbs, Len(self.state)),
                       None, None)
          ELSE
            LET input == [i \in 1..Len(self.state) |-> self.state[i]]
                hash == SpongeHash(self.constants, parameter, input, p)
                used == Some([pattern |-> parameter, input |-> input, hash |-> hash])
                bits == to_bits_le_strict(hash, p)
            IN  IF cs = "ensure_allocated" \/ cs = "to_bits_le_strict"
                THEN Outcome(marked, "err", Msg(cs, 0, 0), None, used)
                ELSE IF num_bits > Len(bits)
                THEN Outcome(marked, "panic", Msg("slice", num_bits, Len(bits)), None, used)
                ELSE Outcome(marked, "ok", NoMsg, Some(SubSeq(bits, 1, num_bits)), used)

\* squeeze that sets the latch only once the count has been found right
PoseidonROCircuit_squeeze_count_first(self, cs, num_bits, p) ==
    IF self.squeezed
    THEN Outcome(self, "panic", Msg("Cannot squeeze again after squeezing", 0, 0), None, None)
    ELSE
      LET marked == [self EXCEPT !.squeezed = TRUE]
          parameter == IOPattern(self.num_absorbs)
      IN  IF self.num_absorbs # Len(self.state)
          THEN Outcome(self, "panic", Msg("assert_eq", self.num_absorbs, Len(self.state)),
                       None, None)
          ELSE
            LET input == [i \in 1..Len(self.state) |-> self.state[i]]
                hash == SpongeHash(self.constants, parameter, input, p)
                used == Some([pattern |-> parameter, input |-> input, hash |-> hash])
                bits == to_bits_le_strict(hash, p)
            IN  IF cs = "ensure_allocated" \/ cs = "to_bits_le_strict"
                THEN Outcome(marked, "err", Msg(cs, 0, 0), None, used)
                ELSE IF num_bits > Len(bits)
                THEN Outcome(marked, "panic", Msg("slice", num_bits, Len(bits)), None, used)
                ELSE Outcome(marked, "ok", NoMsg, Some(SubSeq(bits, 1, num_bits)), used)

\* squeeze that sets the latch only when it returns Ok
PoseidonROCircuit_squeeze_retryable(self, cs, num_bits, p) ==
    IF self.squeezed
    THEN Outcome(self, "panic", Msg("Cannot squeeze again after squeezing", 0, 0), None, None)
    ELSE
      LET marked == [self EXCEPT !.squeezed = TRUE]
          parameter == IOPattern(self.num_absorbs)
      IN  IF self.num_absorbs # Len(self.state)
          THEN Outcome(marked, "panic", Msg("assert_eq", self.num_absorbs, Len(self.state)),
                       None, None)
          ELSE
            LET input == [i \in 1..Len(self.state) |-> self.state[i]]
                hash == SpongeHash(self.constants, parameter, input, p)
                used == Some([pattern |-> parameter, input |-> input, hash |-> hash])
                bits == to_bits_le_strict(hash, p)
            IN  IF cs = "ensure_allocated" \/ cs = "to_bits_le_strict"
                THEN Outcome(self, "err", Msg(cs, 0, 0), None, used)
                ELSE IF num_bits > Len(bits)
                THEN Outcome(marked, "panic", Msg("slice", num_bits, Len(bits)), None, used)
                ELSE Outcome(marked, "ok", NoMsg, Some(SubSeq(bits, 1, num_bits)), used)

PoseidonROCircuit_squeeze(self, cs, num_bits, p) ==
    IF self.squeezed
    THEN Outcome(self, "panic", Msg("Cannot squeeze again after squeezing", 0, 0), None, None)
    ELSE
      LET marked == [self EXCEPT !.squeezed = TRUE]
          parameter == IOPattern(self.num_absorbs)
      IN  IF self.num_absorbs # Len(self.state)
          THEN Outcome(marked, "panic", Msg("assert_eq", self.num_absorbs, Len(self.state)),
                       None, None)
          ELSE
            LET input == [i \in 1..Len(self.state) |-> self.state[i]]
                hash == SpongeHash(self.constants, parameter, input, p)
                used == Some([pattern |-> parameter, input |-> input, hash |-> hash])
                bits == to_bits_le_strict(hash, p)
            IN  IF cs = "ensure_allocated" \/ cs = "to_bits_le_strict"
                THEN Outcome(marked, "err", Msg(cs, 0, 0), None, used)
                ELSE IF num_bits > Len(bits)
                THEN Outcome(marked, "panic", Msg("slice", num_bits, Len(bits)), None, used)
                ELSE Outcome(marked, "ok", NoMsg, Some(SubSeq(bits, 1, num_bits)), used)

-----------------------------------------------------------------------------
(* SuperNovaError (src/supernova/error.rs)                                  *)

\* the values of crate::errors::NovaError, opaque here
NovaErrors == 0..MaxNovaError
\* NovaError's PartialEq
NovaError_eq(x, y) == x = y

\* the &'static str labels and the usize indices carried by UnSatIndex
Labels == {"primary", "secondary"}
Indices == 0..MaxIndex

\* the three variants; a field a variant does not have is left at its default
NovaError(source) == [variant |-> "NovaError", source |-> source, label |-> "", index |-> 0]
MissingCK == [variant |-> "MissingCK", source |-> 0, label |-> "", index |-> 0]
UnSatIndex(label, index) ==
    [variant |-> "UnSatIndex", source |-> 0, label |-> label, index |-> index]

\* #[from]: impl From<NovaError> for SuperNovaError
SuperNovaError_from(source) == NovaError(source)

\* a PartialEq that compares the label of UnSatIndex and not its index
SuperNovaError_eq_label_only(a, b) ==
    /\ a.variant = b.variant
    /\ CASE a.variant = "NovaError" -> NovaError_eq(a.source, b.source)
         [] a.variant = "MissingCK" -> TRUE
         [] a.variant = "UnSatIndex" -> a.label = b.label

\* #[derive(PartialEq)]: the same variant, and every field of it equal
SuperNovaError_eq(a, b) ==
    /\ a.variant = b.variant
    /\ CASE a.variant = "NovaError" -> NovaError_eq(a.source, b.source)
         [] a.variant = "MissingCK" -> TRUE
         [] a.variant = "UnSatIndex" -> a.label = b.label /\ a.index = b.index

-----------------------------------------------------------------------------
(* The driver: the calls of test_poseidon_ro_with, in any order and number, *)
(* both oracles being fed the same values                                   *)

Elems == 0..MaxElem
\* the buffer is grown to one element more than the largest num_absorbs
MaxLen == MaxAbsorbs + 1
\* num_bits from 0 up to one more than the representation holds
NumBitsRange == 0..(ReprBitsLen(fields.base) + 1)

\* what the caller sees of a call
Call(op, r) == [op |-> op, outcome |-> r.outcome, msg |-> r.msg]

NoCall == [op |-> "new", outcome |-> "ok", msg |-> NoMsg]

\* what a squeeze that returned has returned, with the sponge it used
Returned(num_bits, r) == [num_bits |-> num_bits, ret |-> r.ret[1], sponge |-> r.sponge[1]]

Init ==
    /\ fields \in FieldPairs
    /\ \E c \in 0..MaxConstants, n \in 1..MaxAbsorbs :
          /\ ro = PoseidonRO_new(c, n)
          /\ ro_gadget = PoseidonROCircuit_new(c, n)
    /\ ro_call = NoCall
    /\ gadget_call = NoCall
    /\ ro_out = <<>>
    /\ gadget_out = <<>>
    /\ ro_absorbed = <<>>
    /\ gadget_absorbed = <<>>
    /\ err = MissingCK
    /\ err_prev = MissingCK
    /\ thrown = [kind |-> "MissingCK", source |-> 0, label |-> "", index |-> 0]
    /\ thrown_prev = thrown

\* one turn of the loop: ro.absorb(num), then ro_gadget.absorb(&num_gadget)
\* on a variable allocated with the same value; a panic of the first call
\* ends the turn
Absorb ==
    \E e \in Elems :
      LET r == PoseidonRO_absorb(ro, e)
          g == PoseidonROCircuit_absorb(ro_gadget, e)
      IN  /\ Len(r.self.state) <= MaxLen
          /\ ro' = r.self
          /\ ro_call' = Call("absorb", r)
          /\ ro_absorbed' = IF r.outcome = "ok" THEN Append(ro_absorbed, e)
                            ELSE ro_absorbed
          /\ IF r.outcome = "panic"
             THEN UNCHANGED <<ro_gadget, gadget_call, gadget_absorbed>>
             ELSE /\ Len(g.self.state) <= MaxLen
                  /\ ro_gadget' = g.self
                  /\ gadget_call' = Call("absorb", g)
                  /\ gadget_absorbed' = IF g.outcome = "ok"
                                        THEN Append(gadget_absorbed, e)
                                        ELSE gadget_absorbed
          /\ UNCHANGED <<error_vars, fields, ro_out, gadget_out>>

\* let num = ro.squeeze(num_bits)
NativeSqueeze ==
    \E num_bits \in NumBitsRange :
      LET r == PoseidonRO_squeeze(ro, num_bits, fields.base, fields.scalar)
      IN  /\ Len(ro_out) < MaxReturns
          /\ ro' = r.self
          /\ ro_call' = Call("squeeze", r)
          /\ ro_out' = IF r.outcome = "ok" THEN Append(ro_out, Returned(num_bits, r))
                       ELSE ro_out
          /\ UNCHANGED <<error_vars, fields, ro_gadget, gadget_call, gadget_out, ro_absorbed,
                         gadget_absorbed>>

\* let num2_bits = ro_gadget.squeeze(&mut cs, num_bits)
GadgetSqueeze ==
    \E num_bits \in NumBitsRange, cs \in Synthesis :
      LET r == PoseidonROCircuit_squeeze(ro_gadget, cs, num_bits, fields.base)
      IN  /\ Len(gadget_out) < MaxReturns
          /\ ro_gadget' = r.self
          /\ gadget_call' = Call("squeeze", r)
          /\ gadget_out' = IF r.outcome = "ok"
                           THEN Append(gadget_out, Returned(num_bits, r))
                           ELSE gadget_out
          /\ UNCHANGED <<error_vars, fields, ro, ro_call, ro_out, ro_absorbed, gadget_absorbed>>

Next == Absorb \/ NativeSqueeze \/ GadgetSqueeze

Spec == Init /\ [][Next]_vars

-----------------------------------------------------------------------------
(* Two transcripts driven independently: one call on one object per step    *)

\* the values absorbed and the squeezes tried by the independent driver
InterleavedElems == {0, MaxElem}
InterleavedBits == {NUM_BITS(fields.base)}
InterleavedSynthesis == {"fine", "to_bits_le_strict"}

\* ro.absorb(e)
NativeAbsorbAlone ==
    \E e \in InterleavedElems :
      LET r == PoseidonRO_absorb(ro, e)
      IN  /\ Len(r.self.state) <= MaxLen
          /\ ro' = r.self
          /\ ro_call' = Call("absorb", r)
          /\ ro_absorbed' = IF r.outcome = "ok" THEN Append(ro_absorbed, e)
                            ELSE ro_absorbed
          /\ UNCHANGED <<error_vars, fields, ro_out, ro_gadget, gadget_call, gadget_out,
                         gadget_absorbed>>

\* the gadget's absorb writing through to the buffer of ro as well, as if the
\* two objects shared one buffer
GadgetAbsorbAlone_aliased ==
    \E e \in InterleavedElems :
      LET g == PoseidonROCircuit_absorb(ro_gadget, e)
      IN  /\ Len(g.self.state) <= MaxLen
          /\ ro_gadget' = g.self
          /\ gadget_call' = Call("absorb", g)
          /\ gadget_absorbed' = IF g.outcome = "ok" THEN Append(gadget_absorbed, e)
                                ELSE gadget_absorbed
          /\ ro' = [ro EXCEPT !.state = g.self.state]
          /\ UNCHANGED <<error_vars, fields, gadget_out, ro_call, ro_out, ro_absorbed>>

\* ro_gadget.absorb(&e)
GadgetAbsorbAlone ==
    \E e \in InterleavedElems :
      LET g == PoseidonROCircuit_absorb(ro_gadget, e)
      IN  /\ Len(g.self.state) <= MaxLen
          /\ ro_gadget' = g.self
          /\ gadget_call' = Call("absorb", g)
          /\ gadget_absorbed' = IF g.outcome = "ok" THEN Append(gadget_absorbed, e)
                                ELSE gadget_absorbed
          /\ UNCHANGED <<error_vars, fields, gadget_out, ro, ro_call, ro_out, ro_absorbed>>

\* ro.squeeze(num_bits)
NativeSqueezeAlone ==
    \E num_bits \in InterleavedBits :
      LET r == PoseidonRO_squeeze(ro, num_bits, fields.base, fields.scalar)
      IN  /\ Len(ro_out) < MaxReturns
          /\ ro' = r.self
          /\ ro_call' = Call("squeeze", r)
          /\ ro_out' = IF r.outcome = "ok" THEN Append(ro_out, Returned(num_bits, r))
                       ELSE ro_out
          /\ UNCHANGED <<error_vars, fields, ro_absorbed, ro_gadget, gadget_call, gadget_out,
                         gadget_absorbed>>

\* ro_gadget.squeeze(&mut cs, num_bits)
GadgetSqueezeAlone ==
    \E num_bits \in InterleavedBits, cs \in InterleavedSynthesis :
      LET r == PoseidonROCircuit_squeeze(ro_gadget, cs, num_bits, fields.base)
      IN  /\ Len(gadget_out) < MaxReturns
          /\ ro_gadget' = r.self
          /\ gadget_call' = Call("squeeze", r)
          /\ gadget_out' = IF r.outcome = "ok"
                           THEN Append(gadget_out, Returned(num_bits, r))
                           ELSE gadget_out
          /\ UNCHANGED <<error_vars, fields, gadget_absorbed, ro, ro_call, ro_out, ro_absorbed>>

NextInterleaved ==
    NativeAbsorbAlone \/ GadgetAbsorbAlone \/ NativeSqueezeAlone \/ GadgetSqueezeAlone

SpecInterleaved == Init /\ [][NextInterleaved]_vars

-----------------------------------------------------------------------------
(* Two transcripts driven in lock-step: every call is made on ro and then   *)
(* on ro_gadget, whatever the first call did                                *)

\* num_bits up to the bit length of the field, on a constraint system that
\* does not fail
LockstepBits == 0..NUM_BITS(fields.base)

\* ro.absorb(e); ro_gadget.absorb(&e)
AbsorbBoth ==
    \E e \in Elems :
      LET r == PoseidonRO_absorb(ro, e)
          g == PoseidonROCircuit_absorb(ro_gadget, e)
      IN  /\ Len(r.self.state) <= MaxLen
          /\ Len(g.self.state) <= MaxLen
          /\ ro' = r.self
          /\ ro_call' = Call("absorb", r)
          /\ ro_absorbed' = IF r.outcome = "ok" THEN Append(ro_absorbed, e)
                            ELSE ro_absorbed
          /\ ro_gadget' = g.self
          /\ gadget_call' = Call("absorb", g)
          /\ gadget_absorbed' = IF g.outcome = "ok" THEN Append(gadget_absorbed, e)
                                ELSE gadget_absorbed
          /\ UNCHANGED <<error_vars, fields, ro_out, gadget_out>>

\* ro.squeeze(num_bits); ro_gadget.squeeze(&mut cs, num_bits)
SqueezeBoth ==
    \E num_bits \in LockstepBits :
      LET r == PoseidonRO_squeeze(ro, num_bits, fields.base, fields.scalar)
          g == PoseidonROCircuit_squeeze(ro_gadget, "fine", num_bits, fields.base)
      IN  /\ Len(ro_out) < MaxReturns
          /\ Len(gadget_out) < MaxReturns
          /\ ro' = r.self
          /\ ro_call' = Call("squeeze", r)
          /\ ro_out' = IF r.outcome = "ok" THEN Append(ro_out, Returned(num_bits, r))
                       ELSE ro_out
          /\ ro_gadget' = g.self
          /\ gadget_call' = Call("squeeze", g)
          /\ gadget_out' = IF g.outcome = "ok"
                           THEN Append(gadget_out, Returned(num_bits, g))
                           ELSE gadget_out
          /\ UNCHANGED <<error_vars, fields, ro_absorbed, gadget_absorbed>>

NextLockstep == AbsorbBoth \/ SqueezeBoth

SpecLockstep == Init /\ [][NextLockstep]_vars

-----------------------------------------------------------------------------
(* The folding layer handing errors to its caller                           *)

Throw(kind, source, label, index) ==
    [kind |-> kind, source |-> source, label |-> label, index |-> index]

\* a NovaError propagated with ?, converted by From
RaiseNovaError ==
    \E e \in NovaErrors :
        /\ err' = SuperNovaError_from(e)
        /\ thrown' = Throw("NovaError", e, "", 0)
        /\ err_prev' = err
        /\ thrown_prev' = thrown
        /\ UNCHANGED oracle_vars

\* Err(SuperNovaError::MissingCK)
RaiseMissingCK ==
    /\ err' = MissingCK
    /\ thrown' = Throw("MissingCK", 0, "", 0)
    /\ err_prev' = err
    /\ thrown_prev' = thrown
    /\ UNCHANGED oracle_vars

\* Err(SuperNovaError::UnSatIndex(label, index))
RaiseUnSatIndex ==
    \E l \in Labels, i \in Indices :
        /\ err' = UnSatIndex(l, i)
        /\ thrown' = Throw("UnSatIndex", 0, l, i)
        /\ err_prev' = err
        /\ thrown_prev' = thrown
        /\ UNCHANGED oracle_vars

NextErrors == RaiseNovaError \/ RaiseMissingCK \/ RaiseUnSatIndex

SpecErrors == Init /\ [][NextErrors]_vars

-----------------------------------------------------------------------------
(* Properties *)

\* the integer  b[1] * 2^0 + b[2] * 2^1 + ...  of a sequence of 0/1 values
RECURSIVE IntegerOf(_)
IntegerOf(b) == IF b = <<>> THEN 0 ELSE Head(b) + 2 * IntegerOf(Tail(b))

\* bit i (from 0, low to high) of the integer x
BitAt(x, i) == (x \div (2 ^ i)) % 2

\* a native and a circuit squeeze that returned, made over the same constants
\* on the same ordered input with the same num_bits
SameTranscript(n, g) ==
    /\ ro.constants = ro_gadget.constants
    /\ n.sponge.pattern = g.sponge.pattern
    /\ n.sponge.input = g.sponge.input
    /\ n.num_bits = g.num_bits

OneShot(self, self2, call, call2, out, out2) ==
    self.squeezed =>
        /\ self2 = self
        /\ out2 = out
        /\ (call2 # call => call2.outcome = "panic")

\* on one object, in one state: if squeezed is true, each of the calls that
\* could be made now panics and leaves the object as it is
AllRefused(self, calls) ==
    self.squeezed => \A r \in calls : r.outcome = "panic" /\ r.self = self

\* C2: once squeezed == true, every later absorb and squeeze on either oracle
\* panics: no absorb appends to the buffer and no second squeeze returns.
C2_OneShot ==
    /\ [](/\ AllRefused(ro, {PoseidonRO_absorb(ro, e) : e \in Elems})
          /\ AllRefused(ro, {PoseidonRO_squeeze(ro, k, fields.base, fields.scalar) :
                                k \in NumBitsRange})
          /\ AllRefused(ro_gadget, {PoseidonROCircuit_absorb(ro_gadget, e) : e \in Elems})
          /\ AllRefused(ro_gadget,
                        {PoseidonROCircuit_squeeze(ro_gadget, cs, k, fields.base) :
                            k \in NumBitsRange, cs \in Synthesis}))
    /\ [][/\ OneShot(ro, ro', ro_call, ro_call', ro_out, ro_out')
          /\ OneShot(ro_gadget, ro_gadget', gadget_call, gadget_call',
                     gadget_out, gadget_out')]_vars

\* an absorb on ro and a second squeeze on ro_gadget have both been refused
C2_Witness ==
    /\ ro.squeezed /\ ro_call.op = "absorb" /\ ro_call.outcome = "panic"
    /\ Len(gadget_out) = 1 /\ gadget_call.op = "squeeze" /\ gadget_call.outcome = "panic"
    /\ gadget_call.msg.text = "Cannot squeeze again after squeezing"

\* the first squeeze call on an object whose count differs from num_absorbs
\* panics on the assert_eq and returns nothing; a squeeze returns only from a
\* state with exactly num_absorbs elements
CountChecked(self, self2, call2, out, out2) ==
    /\ (~self.squeezed /\ self2.squeezed /\ Len(self.state) # self.num_absorbs)
          => /\ call2.outcome = "panic"
             /\ call2.msg = Msg("assert_eq", self.num_absorbs, Len(self.state))
             /\ out2 = out
    /\ out2 # out => Len(self.state) = self.num_absorbs

\* C3: a squeeze made when the absorbed count differs from num_absorbs (fewer
\* or more) panics and returns no challenge, on both oracles.
C3_SqueezeNeedsExactCount ==
    [][/\ CountChecked(ro, ro', ro_call', ro_out, ro_out')
       /\ CountChecked(ro_gadget, ro_gadget', gadget_call', gadget_out, gadget_out')]_vars

\* ro has just been squeezed with too many elements, and ro_gadget was squeezed
\* earlier with too few; neither has returned anything
C3_Witness ==
    /\ ro_call.msg.text = "assert_eq" /\ ro_call.msg.right > ro_call.msg.left
    /\ ro_gadget.squeezed /\ Len(ro_gadget.state) < ro_gadget.num_absorbs
    /\ ro_out = <<>> /\ gadget_out = <<>>

\* C4 as stated: in every reachable state the number of absorbed elements is
\* at most num_absorbs, on both oracles.
C4_CapacityInvariant ==
    /\ Len(ro.state) <= ro.num_absorbs
    /\ Len(ro_gadget.state) <= ro_gadget.num_absorbs

\* C5: squeezed is false after new, is never reset once true, and at most one
\* squeeze call on an object returns a value.
C5_LatchMonotone ==
    /\ ~ro.squeezed /\ ~ro_gadget.squeezed
    /\ [][/\ ro.squeezed => ro'.squeezed
          /\ ro_gadget.squeezed => ro_gadget'.squeezed
          /\ Len(ro_out') <= 1
          /\ Len(gadget_out') <= 1
          /\ ro_out' # <<>> => ro'.squeezed
          /\ gadget_out' # <<>> => ro_gadget'.squeezed]_vars

\* each oracle has returned from one squeeze and has refused a second one
C5_Witness ==
    /\ Len(ro_out) = 1 /\ ro_call.msg.text = "Cannot squeeze again after squeezing"
    /\ Len(gadget_out) = 1
    /\ gadget_call.msg.text = "Cannot squeeze again after squeezing"

\* C7: for num_bits = k, PoseidonRO::squeeze returns the sum over i < k of
\* bit_i * 2^i of the sponge output, taken in the Scalar field; the bits from
\* position k on contribute nothing and the value is below 2^k.
C7_Truncation ==
    \A i \in DOMAIN ro_out :
        LET k == ro_out[i].num_bits
            low == ro_out[i].sponge.hash % (2 ^ k)
        IN  /\ ro_out[i].ret = low % fields.scalar
            /\ ro_out[i].ret < 2 ^ k
            /\ (2 ^ k <= fields.scalar => ro_out[i].ret = low)

\* a native squeeze of 2 bits has returned a nonzero value from a sponge output
\* that has a higher bit set
C7_Witness ==
    \E i \in DOMAIN ro_out :
        /\ ro_out[i].num_bits = 2
        /\ ro_out[i].sponge.hash >= 4
        /\ ro_out[i].ret > 0

\* C8: on both oracles the buffer is the sequence of values passed to absorb, in
\* call order, and the input a returning squeeze hands to the sponge is that
\* sequence.
C8_OrderBinding ==
    /\ ro.state = ro_absorbed
    /\ ro_gadget.state = gadget_absorbed
    /\ \A i \in DOMAIN ro_out :
          /\ ro_out[i].sponge.input = ro_absorbed
          /\ ro_out[i].sponge.pattern[1].n = Len(ro_absorbed)
    /\ \A j \in DOMAIN gadget_out :
          /\ gadget_out[j].sponge.input = gadget_absorbed
          /\ gadget_out[j].sponge.pattern[1].n = Len(gadget_absorbed)

\* both oracles have returned after absorbing 1 and then 0
C8_Witness ==
    /\ ro_absorbed = <<1, 0>> /\ gadget_absorbed = <<1, 0>>
    /\ ro_out # <<>> /\ gadget_out # <<>>

\* C9: a PoseidonROCircuit::squeeze that returns Ok returns exactly num_bits
\* signals, signal i being bit i of the squeezed element, low to high, as in the
\* native decomposition.
C9_LowBitsReturned ==
    \A j \in DOMAIN gadget_out :
        LET g == gadget_out[j]
        IN  /\ Len(g.ret) = g.num_bits
            /\ g.sponge.hash \in 0..(fields.base - 1)
            /\ \A i \in 1..g.num_bits :
                  /\ g.ret[i] = BitAt(g.sponge.hash, i - 1)
                  /\ g.ret[i] = to_le_bits(g.sponge.hash, fields.base)[i]

\* a circuit squeeze of 2 bits has returned the signals 0, 1 of an element
\* whose bit 2 is set
C9_Witness ==
    \E j \in DOMAIN gadget_out :
        /\ gadget_out[j].num_bits = 2
        /\ gadget_out[j].ret = <<0, 1>>
        /\ gadget_out[j].sponge.hash = 6

\* the preconditions of PoseidonROCircuit::squeeze hold in this state
GadgetMaySqueeze ==
    ~ro_gadget.squeezed /\ Len(ro_gadget.state) = ro_gadget.num_absorbs

\* C10: a synthesis failure inside PoseidonROCircuit::squeeze comes back as Err
\* with no signals, and only from a call whose preconditions held; a call that
\* violates a precondition panics, whatever the constraint system does.
C10_SynthesisErrors ==
    /\ \A k \in NumBitsRange, cs \in Synthesis :
          LET r == PoseidonROCircuit_squeeze(ro_gadget, cs, k, fields.base)
          IN  /\ (GadgetMaySqueeze /\ cs # "fine")
                    => r.outcome = "err" /\ r.msg.text = cs /\ r.ret = None
              /\ ~GadgetMaySqueeze => r.outcome = "panic" /\ r.ret = None
              /\ r.outcome = "err" => cs # "fine"
    /\ gadget_call.outcome = "err"
          => /\ gadget_call.op = "squeeze"
             /\ ro_gadget.squeezed
             /\ Len(ro_gadget.state) = ro_gadget.num_absorbs
             /\ gadget_out = <<>>

\* the circuit squeeze has just returned Err from ensure_allocated on a
\* transcript on which the native squeeze has returned a value
C10_Witness ==
    /\ gadget_call.outcome = "err" /\ gadget_call.msg.text = "ensure_allocated"
    /\ ro_out # <<>> /\ ro.state = ro_gadget.state

\* the object that results from new(constants, num_absorbs) and the given
\* absorb calls, made on it alone
RECURSIVE SoloNative(_, _)
SoloNative(self, values) ==
    IF values = <<>> THEN self
    ELSE SoloNative(PoseidonRO_absorb(self, Head(values)).self, Tail(values))

RECURSIVE SoloGadget(_, _)
SoloGadget(self, values) ==
    IF values = <<>> THEN self
    ELSE SoloGadget(PoseidonROCircuit_absorb(self, Head(values)).self, Tail(values))

\* ro is what its own accepted calls make of a fresh object run alone, and what
\* it returned is what that object returns
NativeAsAlone ==
    LET alone == SoloNative(PoseidonRO_new(ro.constants, ro.num_absorbs), ro_absorbed)
    IN  /\ [ro EXCEPT !.squeezed = FALSE] = alone
        /\ \A i \in DOMAIN ro_out :
              LET r == PoseidonRO_squeeze(alone, ro_out[i].num_bits, fields.base,
                                          fields.scalar)
              IN  r.outcome = "ok" /\ r.ret = Some(ro_out[i].ret) /\ r.self = ro

GadgetAsAlone ==
    LET alone == SoloGadget(PoseidonROCircuit_new(ro_gadget.constants,
                                                  ro_gadget.num_absorbs),
                            gadget_absorbed)
    IN  /\ [ro_gadget EXCEPT !.squeezed = FALSE] = alone
        /\ \A j \in DOMAIN gadget_out :
              LET r == PoseidonROCircuit_squeeze(alone, "fine", gadget_out[j].num_bits,
                                                 fields.base)
              IN  r.outcome = "ok" /\ r.ret = Some(gadget_out[j].ret)
                  /\ r.self = ro_gadget

native_vars == <<ro, ro_call, ro_out, ro_absorbed>>
gadget_vars == <<ro_gadget, gadget_call, gadget_out, gadget_absorbed>>

C12_ErrorTaxonomy ==
    /\ thrown.kind = "NovaError"
          => err.variant = "NovaError" /\ err.source = thrown.source
    /\ thrown.kind = "UnSatIndex"
          => err.variant = "UnSatIndex" /\ err.label = thrown.label
             /\ err.index = thrown.index
    /\ thrown.kind = "MissingCK" => err.variant = "MissingCK"
    /\ (thrown.kind = "MissingCK" /\ thrown_prev.kind # "MissingCK")
          => ~SuperNovaError_eq(err, err_prev) /\ ~SuperNovaError_eq(err_prev, err)
    /\ (thrown.kind = "UnSatIndex" /\ thrown_prev.kind = "UnSatIndex")
          => (SuperNovaError_eq(err, err_prev)
                <=> (thrown.label = thrown_prev.label /\ thrown.index = thrown_prev.index))
    /\ (thrown.kind = "NovaError" /\ thrown_prev.kind = "NovaError")
          => (SuperNovaError_eq(err, err_prev)
                <=> NovaError_eq(thrown.source, thrown_prev.source))

\* two UnSatIndex errors with the same label and different indices were raised
\* one after the other
C12_Witness ==
    /\ thrown.kind = "UnSatIndex" /\ thrown_prev.kind = "UnSatIndex"
    /\ err.label = err_prev.label
    /\ err.index = 2 /\ err_prev.index = 1

\* C14: squeezed becomes true only in a squeeze that passed both preconditions:
\* the latch of either object flips only when the absorbed count equals
\* num_absorbs, so a squeeze rejected for its count leaves the object as it was.
C14_LatchSetLast ==
    [][/\ (~ro.squeezed /\ ro'.squeezed) => Len(ro.state) = ro.num_absorbs
       /\ (~ro_gadget.squeezed /\ ro_gadget'.squeezed)
             => Len(ro_gadget.state) = ro_gadget.num_absorbs]_vars

\* C15: under calls made in lock-step on both objects, with num_bits up to the
\* field bit length and no synthesis failure, a call panics on ro iff the same
\* call panics on ro_gadget, and after every call the two objects hold the
\* same number of absorbed elements and the same latch.
C15_Mirror ==
    /\ ro_call.op = gadget_call.op
    /\ ro_call.outcome = "panic" <=> gadget_call.outcome = "panic"
    /\ ro_call.outcome = "ok" <=> gadget_call.outcome = "ok"
    /\ Len(ro.state) = Len(ro_gadget.state)
    /\ ro.squeezed = ro_gadget.squeezed
    /\ Len(ro_out) = Len(gadget_out)

\* both objects refused a squeeze for its count and then refused the absorb
\* that would have completed the transcript
C15_Witness ==
    /\ ro_call.op = "absorb" /\ ro_call.outcome = "panic"
    /\ gadget_call.op = "absorb" /\ gadget_call.outcome = "panic"
    /\ Len(ro.state) < ro.num_absorbs
    /\ Len(ro_gadget.state) < ro_gadget.num_absorbs
    /\ ro_out = <<>> /\ gadget_out = <<>>

\* the step from s to t appends x at the end of the buffer and changes no
\* other field
AppendsOne(s, t, x) ==
    /\ t.state = Append(s.state, x)
    /\ t.squeezed = s.squeezed

\* the frame of one object over a step: num_absorbs and constants never change;
\* the buffer changes only in an absorb that returned, by one element at its
\* end; an absorb that returned did exactly that
Frame(s, t, call, absorbed, absorbed_next) ==
    /\ t.num_absorbs = s.num_absorbs
    /\ t.constants = s.constants
    /\ t.state # s.state
          => /\ call.op = "absorb" /\ call.outcome = "ok"
             /\ absorbed_next # absorbed
    /\ absorbed_next # absorbed
          => /\ absorbed_next = Append(absorbed, absorbed_next[Len(absorbed_next)])
             /\ AppendsOne(s, t, absorbed_next[Len(absorbed_next)])
    /\ t.squeezed # s.squeezed => t.state = s.state

\* C16: an absorb that returns appends exactly one element at the end of the
\* buffer and leaves num_absorbs, constants, the latch and the earlier entries
\* unchanged; squeeze leaves the buffer, num_absorbs and constants unchanged;
\* so num_absorbs and constants never change.
C16_Frame ==
    [][/\ Frame(ro, ro', ro_call', ro_absorbed, ro_absorbed')
       /\ Frame(ro_gadget, ro_gadget', gadget_call', gadget_absorbed, gadget_absorbed')
       /\ ro_out' # ro_out => ro'.state = ro.state
       /\ gadget_out' # gadget_out => ro_gadget'.state = ro_gadget.state]_vars

\* one more element than num_absorbs was absorbed into both objects and both
\* squeezes were then refused, the buffers as the absorbs left them
C16_Witness ==
    /\ Len(ro.state) = ro.num_absorbs + 1 /\ ro.state = ro_absorbed
    /\ Len(ro_gadget.state) = ro_gadget.num_absorbs + 1
    /\ ro_gadget.state = gadget_absorbed
    /\ ro.squeezed /\ ro_gadget.squeezed
    /\ ro_call.op = "squeeze" /\ gadget_call.op = "squeeze"

\* every challenge in out came from a sponge started inside the squeeze on the
\* pattern Absorb(num_absorbs), Squeeze(1), fed the buffer of o and nothing
\* else, over the constants of o
FreshSponge(o, out) ==
    \A i \in 1..Len(out) :
        LET s == out[i].sponge
        IN  /\ s.pattern = <<[op |-> "Absorb", n |-> o.num_absorbs],
                             [op |-> "Squeeze", n |-> 1]>>
            /\ s.input = o.state
            /\ Len(s.input) = s.pattern[1].n
            /\ s.hash = SpongeHash(o.constants, s.pattern, o.state, fields.base)

\* C17: at squeeze time both oracles declare one absorb phase of length
\* num_absorbs followed by one squeeze phase of length 1, on a sponge created
\* in the call over the object's constants and finished before the call
\* returns; no sponge state passes between calls or objects.
C17_SpongePattern ==
    /\ FreshSponge(ro, ro_out)
    /\ FreshSponge(ro_gadget, gadget_out)
    /\ Len(ro_out) <= 1 /\ Len(gadget_out) <= 1

\* both objects returned a challenge for a transcript of two elements, from
\* the same hash
C17_Witness ==
    /\ ro_out # <<>> /\ gadget_out # <<>>
    /\ ro.num_absorbs = 2 /\ ro_gadget.num_absorbs = 2
    /\ ro_out[1].sponge.hash = gadget_out[1].sponge.hash
    /\ ro_out[1].sponge.input[1] # ro_out[1].sponge.input[2]

\* C18: for num_bits greater than the field bit length neither squeeze returns
\* a challenge, so every challenge either object returned was asked for with
\* num_bits within the field bit length, and the two sides never differ in
\* whether they return.
C18_TruncationRejectedAlike ==
    /\ \A i \in 1..Len(ro_out) : ro_out[i].num_bits <= NUM_BITS(fields.base)
    /\ \A i \in 1..Len(gadget_out) : gadget_out[i].num_bits <= NUM_BITS(fields.base)

\* C19: once PoseidonROCircuit::squeeze has returned Err(SynthesisError) the
\* latch of the object is set: every absorb and every squeeze on it panics and
\* leaves it as it is, so the squeeze cannot be tried again on that object.
C19_FailedSqueezeConsumes ==
    gadget_call.outcome = "err"
       => /\ gadget_call.op = "squeeze"
          /\ ro_gadget.squeezed
          /\ Len(ro_gadget.state) = ro_gadget.num_absorbs
          /\ \A e \in Elems :
                LET g == PoseidonROCircuit_absorb(ro_gadget, e)
                IN  g.outcome = "panic" /\ g.self = ro_gadget
          /\ \A num_bits \in NumBitsRange, cs \in Synthesis :
                LET g == PoseidonROCircuit_squeeze(ro_gadget, cs, num_bits, fields.base)
                IN  /\ g.outcome = "panic" /\ g.self = ro_gadget
                    /\ g.msg.text = "Cannot squeeze again after squeezing"

\* the bit decomposition failed in a squeeze on a complete transcript of two
\* elements, nothing having been returned
C19_Witness ==
    /\ gadget_call.op = "squeeze" /\ gadget_call.outcome = "err"
    /\ gadget_call.msg.text = "to_bits_le_strict"
    /\ Len(ro_gadget.state) = 2 /\ ro_gadget.num_absorbs = 2
    /\ gadget_out = <<>>

====
